---- MODULE Spec2Model ----
(***************************************************************************)
(* A model of unearthtime's locator resolution and response model:         *)
(* explore/query.py (selector execution), explore/response.py (Hit,        *)
(* HitList, Miss) and explore/locator.py (Locator, ForcedLocator).         *)
(*                                                                         *)
(* One behaviour of Spec is one invocation locator(parent, *args,          *)
(* until=..., **kwargs) of one Locator against a stub driver.  The driver  *)
(* is the external collaborator: what a lookup returns, and whether an     *)
(* explicit wait times out, is chosen nondeterministically at the moment   *)
(* of the call.                                                            *)
(***************************************************************************)
EXTENDS Integers, Sequences, FiniteSets, TLC

VARIABLES locator, call, pc, i, until, warnings, queried, last, result

\* the Registry under test, the phase of its life and the latest operation on it
VARIABLES registry, regPc, regOp

\* one Hit.click call
VARIABLES click

\* one Wait.__call__, one lookup under an explicit wait, the EarthTime
\* objects sharing a driver, the Hit objects made so far, and the pulls of
\* one EarthTime
VARIABLES waitCall, poll, earth, hitObjs, pulls

locatorVars == <<locator, call, pc, i, until, warnings, queried, last, result>>

registryVars == <<registry, regPc, regOp>>

clickVars == <<click>>

auxVars == <<waitCall, poll, earth, hitObjs, pulls>>

vars == <<locatorVars, registryVars, clickVars, auxVars>>

---------------------------------------------------------------------------
(* Bounds                                                                  *)

\* longest candidate list of a Locator
MaxTerms == 3
\* number of distinct elements the stub page holds
MaxElems == 2
\* most positional / keyword arguments passed to an invocation
MaxArgs == 1

---------------------------------------------------------------------------
(* Values                                                                  *)

None == "None"

\* query.py: class By(Enum)
By == {"CLASS", "CSS", "ID", "NAME", "TAG", "XPATH"}

\* any object that is not a member of By
NotABy == "OTHER"

\* the kinds drawn for a parallel sequence of kinds (one kind per sequence)
ByChoices == {"CSS", "NAME"}

Elements == 1 .. MaxElems

\* stub driver: WebElement.is_displayed(); odd elements are displayed
is_displayed(e) == e % 2 = 1

\* the default wait of a Locator and the wait passed at call time
DefaultWait == "default_wait"
CallWait == "call_wait"

\* response.py / typing.py: the three responses, the implicit None of a
\* function that falls off its end, and a raised exception
Miss == [type |-> "Miss", elems |-> <<>>, msg |-> ""]

Hit(e) == [type |-> "Hit", elems |-> <<e>>, msg |-> ""]

HitList(hits) == [type |-> "HitList", elems |-> hits, msg |-> ""]

NoneValue == [type |-> "None", elems |-> <<>>, msg |-> ""]

Raised(exc, msg) == [type |-> exc, elems |-> <<>>, msg |-> msg]

Exceptions == {"UnearthtimeException", "NoSuchElementException",
               "TimeoutException", "RecursionError"}

IsRaise(r) == r.type \in Exceptions

\* truthiness if HitList.__bool__ answered for the object, not its length
TruthyByDefault(r) ==
    CASE r.type = "Miss" -> FALSE
      [] r.type = "None" -> FALSE
      [] OTHER -> TRUE

\* MissType.__bool__, HitList.__bool__, object truthiness of a Hit
Truthy(r) ==
    CASE r.type = "Miss" -> FALSE
      [] r.type = "None" -> FALSE
      [] r.type = "HitList" -> Len(r.elems) > 0
      [] OTHER -> TRUE

\* utils.where: list(filter(condition, iterable)) with h.is_displayed()
where_displayed(hits) == SelectSeq(hits, is_displayed)

---------------------------------------------------------------------------
(* Selector execution: explore/query.py                                    *)
(*                                                                         *)
(* out is what the driver's lookup does for this call:                     *)
(*   [found |-> FALSE, elems |-> <<>>]  it raises NoSuchElementException   *)
(*   [found |-> TRUE,  elems |-> s]     it returns the element s[1]        *)
(*                                      (find one) or the list s (find all)*)
(* w is what the explicit wait does when one runs: "ok" (the predicate     *)
(* returns the value it was built on) or "timeout" (TimeoutException).     *)

NotFound == [found |-> FALSE, elems |-> <<>>]

\* nonrepeating sequences of page elements
ElemSeqs == UNION {{s \in [1 .. n -> Elements] :
                      \A a, b \in 1 .. n : a # b => s[a] # s[b]} : n \in 0 .. MaxElems}

\* driver.find_element_by_*: raises NoSuchElementException or returns one element
FindOneOutcomes == {NotFound} \cup {[found |-> TRUE, elems |-> <<e>>] : e \in Elements}

\* driver.find_elements_by_*: a list of elements (a stub may raise instead)
FindAllOutcomes == {NotFound} \cup {[found |-> TRUE, elems |-> s] : s \in ElemSeqs}

WaitOutcomes(u) == IF u = None THEN {"ok"} ELSE {"ok", "timeout"}

\* response_of without the TimeoutException of its tuple
response_of_nse_only(r) == IF r.type = "NoSuchElementException" THEN Miss ELSE r

\* response_of: returnonexception(Miss, (NoSuchElementException, TimeoutException))
response_of(r) ==
    IF r.type \in {"NoSuchElementException", "TimeoutException"} THEN Miss ELSE r

\* Hit.__init__: self._parent is resolved by __getattr__ on the wrapped
\* object; for anything that is not a WebElement (a list, Miss) __getattr__
\* and __getitem__ call each other until RecursionError
Hit_init(isElement, elems) ==
    IF isElement THEN Hit(elems[1]) ELSE Raised("RecursionError", "")

\* HitList.__new__: one Hit per element, or the empty tuple
HitList_new(elems) == HitList(elems)

\* WebDriverWait(...).until(until(value)): the value or TimeoutException
wait_for_until(w, elems) ==
    IF w = "timeout" THEN Raised("TimeoutException", "") ELSE HitList(elems)

\* the lambda of fclass, fcss, fid, fname, ftag, fxpath
FindOneBody(u, parent, out, w) ==
    IF u = None
    THEN IF parent = None THEN Miss
         ELSE IF ~out.found THEN Raised("NoSuchElementException", "")
         ELSE Hit_init(TRUE, out.elems)
    ELSE IF parent = None THEN Hit_init(FALSE, <<>>)
         ELSE IF ~out.found THEN Raised("NoSuchElementException", "")
         ELSE LET v == wait_for_until(w, out.elems)
              IN  IF IsRaise(v) THEN v ELSE Hit_init(TRUE, v.elems)

\* the lambda of fxclass, fxcss, fxid, fxxpath
FindAllBody(u, parent, out, w) ==
    IF u = None
    THEN IF parent = None THEN Miss
         ELSE IF ~out.found THEN Raised("NoSuchElementException", "")
         ELSE HitList_new(out.elems)
    ELSE IF parent = None THEN HitList_new(<<>>)
         ELSE IF ~out.found THEN Raised("NoSuchElementException", "")
         ELSE LET v == wait_for_until(w, out.elems)
              IN  IF IsRaise(v) THEN v ELSE HitList_new(v.elems)

\* the lambda of fxname, fxtag: without a wait the list is wrapped in Hit
FindAllBodyHit(u, parent, out, w) ==
    IF u = None
    THEN IF parent = None THEN Miss
         ELSE IF ~out.found THEN Raised("NoSuchElementException", "")
         ELSE Hit_init(FALSE, out.elems)
    ELSE FindAllBody(u, parent, out, w)

fclass(u, parent, out, w) == response_of(FindOneBody(u, parent, out, w))

fcss(u, parent, out, w) == response_of(FindOneBody(u, parent, out, w))

fid(u, parent, out, w) == response_of(FindOneBody(u, parent, out, w))

fname(u, parent, out, w) == response_of(FindOneBody(u, parent, out, w))

ftag(u, parent, out, w) == response_of(FindOneBody(u, parent, out, w))

fxpath(u, parent, out, w) == response_of(FindOneBody(u, parent, out, w))

fxclass(u, parent, out, w) == response_of(FindAllBody(u, parent, out, w))

fxcss(u, parent, out, w) == response_of(FindAllBody(u, parent, out, w))

fxid(u, parent, out, w) == response_of(FindAllBody(u, parent, out, w))

fxname(u, parent, out, w) == response_of(FindAllBodyHit(u, parent, out, w))

fxtag(u, parent, out, w) == response_of(FindAllBodyHit(u, parent, out, w))

fxxpath(u, parent, out, w) == response_of(FindAllBody(u, parent, out, w))

UnrecognizedBy == Raised("UnearthtimeException", "Unrecognized By flag")

find(by, parent, u, out, w) ==
    CASE by = "ID" -> fid(u, parent, out, w)
      [] by = "CSS" -> fcss(u, parent, out, w)
      [] by = "XPATH" -> fxpath(u, parent, out, w)
      [] by = "CLASS" -> fclass(u, parent, out, w)
      [] by = "TAG" -> ftag(u, parent, out, w)
      [] by = "NAME" -> fname(u, parent, out, w)
      [] OTHER -> UnrecognizedBy

find_all(by, parent, u, out, w) ==
    CASE by = "ID" -> fxid(u, parent, out, w)
      [] by = "CSS" -> fxcss(u, parent, out, w)
      [] by = "XPATH" -> fxxpath(u, parent, out, w)
      [] by = "CLASS" -> fxclass(u, parent, out, w)
      [] by = "TAG" -> fxtag(u, parent, out, w)
      [] by = "NAME" -> fxname(u, parent, out, w)
      [] OTHER -> UnrecognizedBy

---------------------------------------------------------------------------
(* Locators: explore/locator.py                                            *)
(*                                                                         *)
(* terms: [seq |-> is it a sequence, items |-> the term(s)]; a term is     *)
(* [callable |-> is it a function of the call's arguments, text |-> its    *)
(* selector].  by: [seq |-> is it a sequence, kinds |-> the kind(s)].      *)

Term(c, k) == [callable |-> c, text |-> k]

TermsChoices ==
    {[seq |-> FALSE, items |-> <<Term(c, 1)>>] : c \in BOOLEAN}
    \cup UNION {{[seq |-> TRUE, items |-> [k \in 1 .. n |-> Term(f[k], k)]] :
                   f \in [1 .. n -> BOOLEAN]} : n \in 1 .. MaxTerms}

BysChoices ==
    {[seq |-> FALSE, kinds |-> <<b>>] : b \in By \cup {NotABy}}
    \cup {[seq |-> TRUE, kinds |-> [k \in 1 .. n |-> b]] :
            n \in 1 .. MaxTerms, b \in ByChoices}

\* the dataclass Locator (forced: the subclass ForcedLocator)
\* origin tells a Locator that was declared from one that
\* ForcedLocator.from_locator made
Locators ==
    [forced : BOOLEAN, terms : TermsChoices, by : BysChoices, list_ : BOOLEAN,
     until : {None, DefaultWait}, origin : {"declared"}]

\* from_locator dropping the default wait
from_locator_without_until(locator_) ==
    [forced |-> TRUE, terms |-> locator_.terms, by |-> locator_.by,
     list_ |-> locator_.list_, until |-> None, origin |-> "from_locator"]

\* ForcedLocator.from_locator: cls(locator.terms, locator.by, locator.list_,
\* locator.until)
from_locator(locator_) ==
    [forced |-> TRUE, terms |-> locator_.terms, by |-> locator_.by,
     list_ |-> locator_.list_, until |-> locator_.until,
     origin |-> "from_locator"]

Parents == {None, "driver"}

\* utils.is_nonstring_iterable(self.terms)
is_nonstring_iterable(terms) == terms.seq

\* callable(self.terms) or (is_nonstring_iterable(self.terms) and any(map(callable, self.terms)))
AnyCallable(terms) == \E k \in 1 .. Len(terms.items) : terms.items[k].callable

\* the first raiseif: bool(args) or bool(kwargs) and not (...); `and` binds
\* tighter than `or`
NoCallableTerms(args, kwargs, terms) ==
    args > 0 \/ (kwargs > 0 /\ ~AnyCallable(terms))

\* the second raiseif, never raising
NoArgumentsNever(args, kwargs, terms) == FALSE

\* the second raiseif: not (bool(args) or bool(kwargs)) and (...)
NoArguments(args, kwargs, terms) ==
    ~(args > 0 \/ kwargs > 0) /\ AnyCallable(terms)

\* the third raiseif: parent is None
NoParent(parent) == parent = None

\* if until and self.until: overridinguseof(...) else: until = self.until
ResolveWait(callUntil, selfUntil) ==
    IF callUntil # None /\ selfUntil # None THEN callUntil ELSE selfUntil

\* overridinguseof(self.until, until) is called
WarnsOverride(callUntil, selfUntil) == callUntil # None /\ selfUntil # None

\* the length check raising only when there are fewer kinds than terms
InsufficientPairsFewer(terms, by) ==
    is_nonstring_iterable(terms) /\ by.seq /\ Len(terms.items) > Len(by.kinds)

\* isinstance(self.by, Iterable) and len(self.terms) != len(self.by)
InsufficientPairs(terms, by) ==
    is_nonstring_iterable(terms) /\ by.seq /\ Len(terms.items) # Len(by.kinds)

\* bys = self.by, or [self.by] * len(self.terms)
bys(terms, by) ==
    IF by.seq THEN by.kinds ELSE [k \in 1 .. Len(terms.items) |-> by.kinds[1]]

\* self.by as handed to find / find_all on the single-term path: a sequence
\* of kinds is not a member of By
SingleBy(by) == IF by.seq THEN NotABy ELSE by.kinds[1]

NoQuery == [text |-> 0, args |-> 0, kwargs |-> 0]

\* query = term(*args, **kwargs) if callable(term) else term
Resolve(term, args, kwargs) ==
    IF term.callable THEN [text |-> term.text, args |-> args, kwargs |-> kwargs]
    ELSE [text |-> term.text, args |-> 0, kwargs |-> 0]

\* the stub driver's record of the latest lookup
NoCall ==
    [cand |-> 0, op |-> "", by |-> "", query |-> NoQuery, until |-> None,
     found |-> FALSE, ret |-> <<>>, wait |-> "none", resp |-> NoneValue]

DriverCall(cand, op, by, query, u, out, w, r) ==
    [cand |-> cand, op |-> op, by |-> by, query |-> query, until |-> u,
     found |-> out.found, ret |-> out.elems,
     wait |-> IF u = None \/ ~out.found THEN "none" ELSE w, resp |-> r]

Outcomes(list_) == IF list_ THEN FindAllOutcomes ELSE FindOneOutcomes

\* find_all(...) if self.list_ else find(...)
Execute(list_, by, parent, u, out, w) ==
    IF list_ THEN find_all(by, parent, u, out, w) ELSE find(by, parent, u, out, w)

\* the standard variant never returning from inside the loop or the branch
StandardReturnsNever(list_, r) == FALSE

\* lines 125 and 127 (135 and 137): hits and where(lambda h: h.is_displayed(), hits);
\* hit and hit.is_displayed()
StandardReturns(list_, r) ==
    IF list_ THEN Truthy(r) /\ where_displayed(r.elems) # <<>>
    ELSE Truthy(r) /\ is_displayed(r.elems[1])

\* lines 246 and 248: if hits := find_all(...); elif hit := find(...)
ForcedReturns(r) == Truthy(r)

\* lines 134-140: with list_ the failed inner `if` has no else, so the
\* call falls off the end of the function and returns None
StandardSingleResult(list_, r) ==
    IF StandardReturns(list_, r) THEN r
    ELSE IF list_ THEN NoneValue ELSE Miss

---------------------------------------------------------------------------
(* The Registry and Hit.click are separate components: while a Locator is  *)
(* invoked they stay in the states defined here.                           *)

\* a Registry object on which __init__ has not bound the __dictionary attribute
NoRegistry == [init |-> FALSE, maps |-> <<>>]

\* no operation has run on the Registry yet
NoOp == [name |-> "", form |-> "", entries |-> <<>>, key |-> 0, val |-> 0,
         n |-> 0, raised |-> ""]

RegistryIdle ==
    /\ registry = NoRegistry
    /\ regPc = "off"
    /\ regOp = NoOp

\* no click is in progress
NoClick == [pc |-> "off", element |-> 0, wait |-> 0, numeric |-> FALSE,
            native |-> 0, nativeOut |-> "", script |-> 0, scriptOut |-> "",
            slept |-> 0, outcome |-> ""]

ClickIdle == click = NoClick

\* no Wait has been called
NoWaitCall == [pc |-> "off", source |-> "", value |-> NoneValue,
               cond |-> "", verdict |-> "", ret |-> NoneValue]

WaitIdle == waitCall = NoWaitCall

\* no lookup under an explicit wait is in progress
NoPoll == [pc |-> "off", op |-> "", element |-> 0, present |-> FALSE,
           satisfied |-> FALSE, captured |-> FALSE, lookups |-> 0,
           elapsed |-> 0, resp |-> NoneValue]

PollIdle == poll = NoPoll

\* no EarthTime object exists and the driver controls no page
NoEarth == [pages |-> <<>>, owner |-> 0, classAttr |-> FALSE, total |-> 0,
            op |-> "", raised |-> ""]

EarthIdle == earth = NoEarth

\* no Hit object exists
NoHits == [objs |-> <<>>, op |-> "", a |-> 0, b |-> 0,
           has |-> [native |-> FALSE, html |-> FALSE, js |-> FALSE,
                    jsNone |-> FALSE],
           stages |-> <<>>, ret |-> ""]

HitsIdle == hitObjs = NoHits

\* no EarthTime.pull has been made
NoKey == [shape |-> "", name |-> <<>>]

NoPulls == [history |-> <<>>, key |-> NoKey, forced |-> FALSE, ret |-> NoneValue]

PullIdle == pulls = NoPulls

AuxIdle ==
    /\ WaitIdle
    /\ PollIdle
    /\ EarthIdle
    /\ HitsIdle
    /\ PullIdle

---------------------------------------------------------------------------
(* The invocation locator(parent, *args, until=..., **kwargs)              *)

Init ==
    /\ locator \in Locators
    /\ call = [parent |-> None, args |-> 0, kwargs |-> 0, until |-> None]
    /\ pc = "idle"
    /\ i = 0
    /\ until = None
    /\ warnings = 0
    /\ queried = <<>>
    /\ last = NoCall
    /\ result = NoneValue
    /\ RegistryIdle
    /\ ClickIdle
    /\ AuxIdle

Return(r) == pc' = "done" /\ result' = r

\* Locator.__call__ / ForcedLocator.__call__ up to the loop: the three
\* raiseif checks, the wait resolution and the pairing of terms with kinds
Invoke(parent, args, kwargs, u) ==
    /\ pc = "idle"
    /\ UNCHANGED <<registryVars, clickVars, auxVars>>
    /\ call' = [parent |-> parent, args |-> args, kwargs |-> kwargs, until |-> u]
    /\ UNCHANGED <<locator, queried, last>>
    /\ IF NoCallableTerms(args, kwargs, locator.terms)
       THEN /\ Return(Raised("UnearthtimeException", "Locator does not have any callable terms."))
            /\ UNCHANGED <<i, until, warnings>>
       ELSE IF NoArguments(args, kwargs, locator.terms)
       THEN /\ Return(Raised("UnearthtimeException", "No arguments provided for callable term(s)."))
            /\ UNCHANGED <<i, until, warnings>>
       ELSE IF NoParent(parent)
       THEN /\ Return(Raised("UnearthtimeException", "No driver or element provided to locate element."))
            /\ UNCHANGED <<i, until, warnings>>
       ELSE /\ until' = ResolveWait(u, locator.until)
            /\ warnings' = IF WarnsOverride(u, locator.until) THEN warnings + 1 ELSE warnings
            /\ IF InsufficientPairs(locator.terms, locator.by)
               THEN Return(Raised("UnearthtimeException", "Insufficient term-by pairs.")) /\ i' = i
               ELSE IF is_nonstring_iterable(locator.terms)
               THEN pc' = "loop" /\ i' = 1 /\ result' = result
               ELSE pc' = "single" /\ i' = i /\ result' = result

\* one iteration of `for term, by in zip(self.terms, bys)` of Locator.__call__
LocatorCandidate ==
    /\ pc = "loop"
    /\ UNCHANGED <<registryVars, clickVars, auxVars>>
    /\ ~locator.forced
    /\ i <= Len(locator.terms.items)
    /\ UNCHANGED <<locator, call, until, warnings>>
    /\ LET by == bys(locator.terms, locator.by)[i]
           query == Resolve(locator.terms.items[i], call.args, call.kwargs)
       IN  IF by \notin By
           THEN Return(UnrecognizedBy) /\ UNCHANGED <<i, queried, last>>
           ELSE \E out \in Outcomes(locator.list_), w \in WaitOutcomes(until) :
                  LET r == Execute(locator.list_, by, call.parent, until, out, w)
                  IN  /\ queried' = Append(queried, i)
                      /\ last' = DriverCall(i, IF locator.list_ THEN "find_all" ELSE "find",
                                            by, query, until, out, w, r)
                      /\ IF IsRaise(r) \/ StandardReturns(locator.list_, r)
                         THEN Return(r) /\ i' = i
                         ELSE pc' = "loop" /\ i' = i + 1 /\ result' = result

\* one iteration of the loop of ForcedLocator.__call__
ForcedCandidate ==
    /\ pc = "loop"
    /\ UNCHANGED <<registryVars, clickVars, auxVars>>
    /\ locator.forced
    /\ i <= Len(locator.terms.items)
    /\ UNCHANGED <<locator, call, until, warnings>>
    /\ LET by == bys(locator.terms, locator.by)[i]
           query == Resolve(locator.terms.items[i], call.args, call.kwargs)
       IN  IF by \notin By
           THEN Return(UnrecognizedBy) /\ UNCHANGED <<i, queried, last>>
           ELSE \E out \in Outcomes(locator.list_), w \in WaitOutcomes(until) :
                  LET r == Execute(locator.list_, by, call.parent, until, out, w)
                  IN  /\ queried' = Append(queried, i)
                      /\ last' = DriverCall(i, IF locator.list_ THEN "find_all" ELSE "find",
                                            by, query, until, out, w, r)
                      /\ IF IsRaise(r) \/ ForcedReturns(r)
                         THEN Return(r) /\ i' = i
                         ELSE pc' = "loop" /\ i' = i + 1 /\ result' = result

\* the `else: return Miss` of the for loop (both variants)
LoopExhausted ==
    /\ pc = "loop"
    /\ UNCHANGED <<registryVars, clickVars, auxVars>>
    /\ i > Len(locator.terms.items)
    /\ Return(Miss)
    /\ UNCHANGED <<locator, call, i, until, warnings, queried, last>>

\* the single-term branch of Locator.__call__
LocatorSingle ==
    /\ pc = "single"
    /\ UNCHANGED <<registryVars, clickVars, auxVars>>
    /\ ~locator.forced
    /\ UNCHANGED <<locator, call, i, until, warnings>>
    /\ LET by == SingleBy(locator.by)
           query == Resolve(locator.terms.items[1], call.args, call.kwargs)
       IN  IF by \notin By
           THEN Return(UnrecognizedBy) /\ UNCHANGED <<queried, last>>
           ELSE \E out \in Outcomes(locator.list_), w \in WaitOutcomes(until) :
                  LET r == Execute(locator.list_, by, call.parent, until, out, w)
                  IN  /\ queried' = Append(queried, 1)
                      /\ last' = DriverCall(1, IF locator.list_ THEN "find_all" ELSE "find",
                                            by, query, until, out, w, r)
                      /\ IF IsRaise(r) THEN Return(r)
                         ELSE Return(StandardSingleResult(locator.list_, r))

\* the single-term branch of ForcedLocator.__call__
ForcedSingle ==
    /\ pc = "single"
    /\ UNCHANGED <<registryVars, clickVars, auxVars>>
    /\ locator.forced
    /\ UNCHANGED <<locator, call, i, until, warnings>>
    /\ LET by == SingleBy(locator.by)
           query == Resolve(locator.terms.items[1], call.args, call.kwargs)
       IN  IF by \notin By
           THEN Return(UnrecognizedBy) /\ UNCHANGED <<queried, last>>
           ELSE \E out \in Outcomes(locator.list_), w \in WaitOutcomes(until) :
                  LET r == Execute(locator.list_, by, call.parent, until, out, w)
                  IN  /\ queried' = Append(queried, 1)
                      /\ last' = DriverCall(1, IF locator.list_ THEN "find_all" ELSE "find",
                                            by, query, until, out, w, r)
                      /\ Return(r)

\* forced = ForcedLocator.from_locator(locator), invoked in its place
FromLocator ==
    /\ pc = "idle"
    /\ ~locator.forced
    /\ locator' = from_locator(locator)
    /\ UNCHANGED <<call, pc, i, until, warnings, queried, last, result>>
    /\ UNCHANGED <<registryVars, clickVars, auxVars>>

Next ==
    \/ \E parent \in Parents, args \in 0 .. MaxArgs, kwargs \in 0 .. MaxArgs,
          u \in {None, CallWait} : Invoke(parent, args, kwargs, u)
    \/ FromLocator
    \/ LocatorCandidate
    \/ ForcedCandidate
    \/ LoopExhausted
    \/ LocatorSingle
    \/ ForcedSingle

Spec == Init /\ [][Next]_vars

---------------------------------------------------------------------------
(* Properties                                                              *)

Multi == locator.terms.seq

Items == locator.terms.items

\* a selector-execution response that is non-empty and, for the standard
\* variant, visible
RespQualifies(r) ==
    \/ r.type = "Hit" /\ (locator.forced \/ is_displayed(r.elems[1]))
    \/ /\ r.type = "HitList"
       /\ r.elems # <<>>
       /\ (locator.forced \/ \E k \in 1 .. Len(r.elems) : is_displayed(r.elems[k]))

\* what the driver did qualifies: it found something, the wait (if any)
\* passed, and for the standard variant something found is displayed
DriverQualifies(c) ==
    /\ c.found
    /\ c.wait # "timeout"
    /\ c.ret # <<>>
    /\ (locator.forced \/ \E k \in 1 .. Len(c.ret) : is_displayed(c.ret[k]))

\* every kind of the locator is a member of By and terms pair with kinds
KindsValid ==
    /\ \A k \in 1 .. Len(locator.by.kinds) : locator.by.kinds[k] \in By
    /\ (Multi /\ locator.by.seq => Len(Items) = Len(locator.by.kinds))
    /\ (~Multi => ~locator.by.seq)

C1Step ==
    Multi =>
      /\ (queried' # queried =>
            /\ pc = "loop"
            /\ queried' = Append(queried, Len(queried) + 1)
            /\ last'.cand = Len(queried) + 1
            /\ (last # NoCall => ~RespQualifies(last.resp)))
      /\ (queried' # queried /\ RespQualifies(last'.resp) =>
            pc' = "done" /\ result' = last'.resp)
      /\ (pc' = "done" /\ result'.type \in {"Hit", "HitList"} =>
            result' = last'.resp /\ RespQualifies(result'))
      /\ (pc = "done" => queried' = queried)

\* C1: a multi-candidate Locator queries its candidates in declaration
\* order, one driver lookup each; a candidate is queried only after the one
\* before it failed to qualify; the first qualifying response is returned
\* by the very step that obtained it, and nothing is queried after a return.
C1_CandidateShortCircuit == [][C1Step]_vars

\* C1 witness: of three candidates the first failed, the second won and the
\* third was never queried
C1_Witness ==
    /\ Multi /\ Len(Items) = 3 /\ ~locator.forced
    /\ pc = "done"
    /\ queried = <<1, 2>>
    /\ result.type = "HitList"

\* C2 (as claimed): a multi-candidate invocation that ends with no
\* qualifying candidate returns Miss, having queried every candidate once.
C2_ExhaustionReturnsMiss ==
    (pc = "done" /\ Multi /\ KindsValid /\ last # NoCall /\ ~DriverQualifies(last))
      => /\ result = Miss
         /\ queried = [k \in 1 .. Len(Items) |-> k]

\* C3 (as claimed): a standard Locator whose driver lookup found only
\* elements that are not displayed returns the Miss sentinel itself.
C3_InvisibleIsMiss ==
    (/\ pc = "done" /\ ~locator.forced /\ last # NoCall
     /\ last.found /\ last.ret # <<>>
     /\ \A k \in 1 .. Len(last.ret) : ~is_displayed(last.ret[k]))
      => result = Miss

\* C4 (as claimed): the HitList a standard list Locator returns holds
\* exactly the displayed elements of the driver's list, in driver order.
C4_ReturnedHitsVisible ==
    (pc = "done" /\ ~locator.forced /\ locator.list_ /\ result.type = "HitList")
      => /\ \A k \in 1 .. Len(result.elems) : is_displayed(result.elems[k])
         /\ result.elems = where_displayed(last.ret)

\* C5: whenever the driver lookup raised no-such-element or the explicit
\* wait timed out, find / find_all answered Miss, for every kind; neither
\* exception is ever the outcome of a Locator invocation.
C5_AbsenceIsMiss ==
    /\ (last # NoCall /\ (~last.found \/ last.wait = "timeout") => last.resp = Miss)
    /\ result.type \notin {"NoSuchElementException", "TimeoutException"}

\* C5 witness: a find_all by name whose explicit wait timed out came back
\* as Miss
C5_Witness ==
    /\ pc = "done"
    /\ last.op = "find_all" /\ last.by = "NAME"
    /\ last.found /\ last.wait = "timeout"
    /\ last.resp = Miss

\* C6 (as claimed, read with the visibility policy: for the standard
\* variant the driver's elements are all displayed and at least one was
\* found, and no explicit wait timed out): a Locator with a single literal
\* term returns Miss iff the driver lookup raised NotFound, and otherwise a
\* Hit / HitList wrapping exactly what the driver returned.
C6_SingleLiteralIffNotFound ==
    (/\ pc = "done" /\ ~Multi /\ ~Items[1].callable /\ last # NoCall
     /\ last.wait # "timeout"
     /\ (~locator.forced /\ last.found =>
           /\ last.ret # <<>>
           /\ \A k \in 1 .. Len(last.ret) : is_displayed(last.ret[k])))
      => /\ (result = Miss <=> ~last.found)
         /\ (last.found =>
               result = IF locator.list_ THEN HitList(last.ret) ELSE Hit(last.ret[1]))

\* C7: zero arguments for a Locator with a callable term, or any arguments
\* for a Locator with no callable term, raise a configuration error before
\* any driver lookup.
C7_ArgumentMismatchRaises ==
    /\ (pc # "idle" /\ call.args = 0 /\ call.kwargs = 0 /\ AnyCallable(locator.terms)
          => /\ pc = "done"
             /\ result = Raised("UnearthtimeException", "No arguments provided for callable term(s).")
             /\ queried = <<>> /\ last = NoCall)
    /\ (pc # "idle" /\ (call.args > 0 \/ call.kwargs > 0) /\ ~AnyCallable(locator.terms)
          => /\ pc = "done"
             /\ result = Raised("UnearthtimeException", "Locator does not have any callable terms.")
             /\ queried = <<>> /\ last = NoCall)

\* C7 witness: a Locator with a callable term was invoked on a driver with
\* no arguments and raised
C7_Witness ==
    /\ pc = "done"
    /\ call.parent # None /\ call.args = 0 /\ call.kwargs = 0
    /\ AnyCallable(locator.terms)
    /\ result.type = "UnearthtimeException"

\* C8 (as claimed): a parameterized Locator invoked on a non-null parent
\* with positional arguments raises no configuration error; its term is
\* called with those arguments and the outcome is a Hit, HitList or Miss.
C8_PositionalArgumentsAccepted ==
    (/\ pc = "done" /\ ~Multi /\ Items[1].callable /\ KindsValid
     /\ call.parent # None /\ call.args >= 1)
      => /\ result.type \in {"Hit", "HitList", "Miss"}
         /\ last.query = [text |-> Items[1].text, args |-> call.args, kwargs |-> call.kwargs]

\* C9 (as claimed): the wait handed to selector execution is the call-time
\* one whenever one is passed and the Locator's default otherwise; when both
\* are present a warning is emitted.
C9_CallTimeWaitWins ==
    /\ (last # NoCall =>
          last.until = IF call.until # None THEN call.until ELSE locator.until)
    /\ (last # NoCall /\ call.until # None /\ locator.until # None => warnings = 1)

\* C10: a null parent, or sequences of terms and kinds of different
\* lengths, raise a configuration error and no driver lookup is performed.
C10_NullParentOrMismatchRaises ==
    (/\ pc # "idle"
     /\ \/ call.parent = None
        \/ Multi /\ locator.by.seq /\ Len(Items) # Len(locator.by.kinds))
      => /\ pc = "done"
         /\ result.type = "UnearthtimeException"
         /\ queried = <<>> /\ last = NoCall

\* C10 witness: the length check itself raised, with more kinds than terms,
\* on a driver and with well-formed arguments
C10_Witness ==
    /\ pc = "done"
    /\ call.parent # None
    /\ Multi /\ locator.by.seq /\ Len(Items) < Len(locator.by.kinds)
    /\ result = Raised("UnearthtimeException", "Insufficient term-by pairs.")
    /\ queried = <<>>

---------------------------------------------------------------------------
(* Registry (explore/registry.py): a ChainMap of name -> Locator layers,    *)
(* front-most layer first                                                   *)

MaxLayers == 2

\* the names "X" and "XX": name k is the string of k characters, so that
\* names are ordered as the strings are
Names == {1, 2}

\* len(name)
NameLen(k) == k

\* two Locator objects
RegLocators == {1, 2}

\* isinstance(key, str): 0 stands for a key that is an int
IsStr(key) == key \in Names

\* isinstance(value, Locator): 0 stands for a value that is no Locator
IsLocator(val) == val \in RegLocators

WellFormed(e) == IsStr(e.key) /\ IsLocator(e.val)

Entries ==
    [key : Names, val : RegLocators]
    \cup {[key |-> 0, val |-> 1], [key |-> 1, val |-> 0]}

\* the entries of a mapping argument, in iteration order
EntrySeqs ==
    {<<>>} \cup {<<a>> : a \in Entries} \cup {<<a, b>> : a, b \in Entries}

DistinctKeys(es) ==
    \A j, k \in DOMAIN es : j # k => es[j].key # es[k].key

\* a dict, an iterable of pairs, or a truthy object that is neither
RegInputs ==
    {[form |-> "dict", entries |-> es] : es \in {x \in EntrySeqs : DistinctKeys(x)}}
    \cup {[form |-> "pairs", entries |-> es] : es \in EntrySeqs}
    \cup {[form |-> "other", entries |-> <<>>]}

NoneInput == [form |-> "none", entries |-> <<>>]

EmptyLayer == [k \in {} |-> 0]

Latest(S) == CHOOSE j \in S : \A k \in S : k <= j

\* {pair[0]: pair[1] for pair in locators if isinstance(pair[0], str) and
\*  isinstance(pair[1], Locator)}: a later pair replaces an earlier one
PairsDict(es) ==
    LET ok == {j \in DOMAIN es : WellFormed(es[j])}
    IN  [k \in {es[j].key : j \in ok} |->
            es[Latest({j \in ok : es[j].key = k})].val]

\* {key: locator for key, locator in locators ...} over a dict iterates the
\* keys and unpacks each key: an int key cannot be unpacked, a string of
\* other than two characters has the wrong number of values, and the two
\* characters of a two-character name are no Locator
KeysDict(es) ==
    LET bad == {j \in DOMAIN es :
                   ~IsStr(es[j].key) \/ NameLen(es[j].key) # 2}
    IN  IF bad = {} THEN [dict |-> EmptyLayer, raised |-> ""]
        ELSE LET j == CHOOSE x \in bad : \A y \in bad : x <= y
             IN  [dict |-> EmptyLayer,
                  raised |-> IF IsStr(es[j].key) THEN "ValueError"
                             ELSE "TypeError"]

\* the new_dict of register and register_last
new_dict(inp) ==
    IF inp.form = "dict" THEN KeysDict(inp.entries)
    ELSE IF inp.form = "pairs"
    THEN [dict |-> PairsDict(inp.entries), raised |-> ""]
    ELSE [dict |-> EmptyLayer, raised |-> ""]

\* Registry.__init__: a falsy argument leaves __dictionary unbound
Registry_init(inp) ==
    IF inp.form = "none" \/ (inp.form \in {"dict", "pairs"} /\ inp.entries = <<>>)
    THEN NoRegistry
    ELSE IF inp.form \in {"dict", "pairs"}
    THEN [init |-> TRUE, maps |-> <<PairsDict(inp.entries)>>]
    ELSE [init |-> TRUE, maps |-> <<EmptyLayer>>]

Outcome(reg, raised) == [reg |-> reg, raised |-> raised]

\* any use of self.__dictionary on a Registry whose __init__ did not bind it
Unbound(reg) == Outcome(reg, "AttributeError")

Defines(maps, key) == {j \in DOMAIN maps : key \in DOMAIN maps[j]}

First(S) == CHOOSE j \in S : \A k \in S : j <= k

\* key in self.__dictionary
Registry_contains(reg, key) ==
    IF ~reg.init THEN [value |-> FALSE, raised |-> "AttributeError"]
    ELSE [value |-> Defines(reg.maps, key) # {}, raised |-> ""]

\* ChainMap.__getitem__: the first layer that has the key
ChainGet(maps, key) == maps[First(Defines(maps, key))][key]

\* self.__dictionary[key] if key in self.__dictionary else None: 0 is None
Registry_getitem(reg, key) ==
    IF ~reg.init THEN [value |-> 0, raised |-> "AttributeError"]
    ELSE IF Defines(reg.maps, key) # {}
    THEN [value |-> ChainGet(reg.maps, key), raised |-> ""]
    ELSE [value |-> 0, raised |-> ""]

Without(layer, key) == [k \in DOMAIN layer \ {key} |-> layer[k]]

With(layer, key, val) ==
    [k \in DOMAIN layer \cup {key} |-> IF k = key THEN val ELSE layer[k]]

\* register: self.__dictionary.maps[0:0] = [new_dict] if new_dict is not empty
register(reg, inp) ==
    LET nd == new_dict(inp)
    IN  IF nd.raised # "" THEN Outcome(reg, nd.raised)
        ELSE IF nd.dict = EmptyLayer THEN Outcome(reg, "")
        ELSE IF ~reg.init THEN Unbound(reg)
        ELSE Outcome([reg EXCEPT !.maps = <<nd.dict>> \o @], "")

\* register_last: self.__dictionary.maps.append(new_dict)
register_last(reg, inp) ==
    LET nd == new_dict(inp)
    IN  IF nd.raised # "" THEN Outcome(reg, nd.raised)
        ELSE IF nd.dict = EmptyLayer THEN Outcome(reg, "")
        ELSE IF ~reg.init THEN Unbound(reg)
        ELSE Outcome([reg EXCEPT !.maps = Append(@, nd.dict)], "")

\* the loop of delete without its break
DeleteEvery(maps, key) == [j \in DOMAIN maps |-> Without(maps[j], key)]

\* the loop of delete and __delitem__: del map_[key] in the first layer that
\* has the key, then break
DeleteFirst(maps, key) ==
    IF Defines(maps, key) = {} THEN maps
    ELSE [maps EXCEPT ![First(Defines(maps, key))] = Without(@, key)]

delete(reg, key) ==
    IF ~reg.init THEN Unbound(reg)
    ELSE Outcome([reg EXCEPT !.maps = DeleteFirst(@, key)], "")

\* delete_all: del map_[key] in every layer that has the key
delete_all(reg, key) ==
    IF ~reg.init THEN Unbound(reg)
    ELSE Outcome([reg EXCEPT !.maps =
                     [j \in DOMAIN @ |-> Without(@[j], key)]], "")

\* the loop of overwrite writing into every layer that has the key
OverwriteEvery(maps, key, val) ==
    [j \in DOMAIN maps |->
        IF key \in DOMAIN maps[j] THEN With(maps[j], key, val) ELSE maps[j]]

\* the loop of overwrite: map_[key] = locator in the first layer that has the
\* key, then break
OverwriteFirst(maps, key, val) ==
    IF Defines(maps, key) = {} THEN maps
    ELSE [maps EXCEPT ![First(Defines(maps, key))] = With(@, key, val)]

overwrite(reg, key, val) ==
    IF ~reg.init THEN Unbound(reg)
    ELSE Outcome([reg EXCEPT !.maps = OverwriteFirst(@, key, val)], "")

\* an update that also rewrites the entries of the deeper layers
update_everywhere(reg, key, val) ==
    IF ~reg.init THEN Unbound(reg)
    ELSE Outcome([reg EXCEPT !.maps = [j \in DOMAIN @ |-> With(@[j], key, val)]], "")

\* update: a key the front layer lacks is written into the front layer
\* (ChainMap.__setitem__ writes maps[0]); a key the front layer has gets a new
\* front layer
update(reg, key, val) ==
    IF ~reg.init THEN Unbound(reg)
    ELSE IF key \notin DOMAIN reg.maps[1]
    THEN Outcome([reg EXCEPT !.maps[1] = With(@, key, val)], "")
    ELSE Outcome([reg EXCEPT !.maps = <<With(EmptyLayer, key, val)>> \o @], "")

RemoveAt(maps, j) == SubSeq(maps, 1, j - 1) \o SubSeq(maps, j + 1, Len(maps))

\* for i in range(len(maps)): if not bool(maps[i]): del maps[i]
\* the range is fixed when the loop starts; j is i + 1 and n the first length
RECURSIVE CleanLoop(_, _, _)
CleanLoop(maps, j, n) ==
    IF j > n THEN [maps |-> maps, raised |-> ""]
    ELSE IF j > Len(maps) THEN [maps |-> maps, raised |-> "IndexError"]
    ELSE IF maps[j] = EmptyLayer THEN CleanLoop(RemoveAt(maps, j), j + 1, n)
    ELSE CleanLoop(maps, j + 1, n)

\* clean: the loop, then maps.append({}) if no layer is left
clean(reg) ==
    IF ~reg.init THEN Unbound(reg)
    ELSE LET r == CleanLoop(reg.maps, 1, Len(reg.maps))
         IN  IF r.raised # "" THEN Outcome([reg EXCEPT !.maps = r.maps], r.raised)
             ELSE IF r.maps = <<>>
             THEN Outcome([reg EXCEPT !.maps = <<EmptyLayer>>], "")
             ELSE Outcome([reg EXCEPT !.maps = r.maps], "")

\* ChainMap.keys(): the keys of the layers from the last layer to the first,
\* each key once
RECURSIVE ChainKeys(_)
ChainKeys(maps) ==
    IF maps = <<>> THEN <<>>
    ELSE LET rest == ChainKeys(Tail(maps))
             seen == {rest[j] : j \in DOMAIN rest}
             RECURSIVE Own(_)
             Own(S) == IF S = {} THEN <<>>
                       ELSE LET k == CHOOSE x \in S : \A y \in S : x <= y
                            IN  <<k>> \o Own(S \ {k})
         IN  rest \o Own(DOMAIN Head(maps) \ seen)

\* sorted(keys): ascending
RECURSIVE sorted(_)
sorted(keys) ==
    IF keys = <<>> THEN <<>>
    ELSE LET j == CHOOSE x \in DOMAIN keys :
                      \A y \in DOMAIN keys : keys[x] <= keys[y]
         IN  <<keys[j]>> \o sorted(RemoveAt(keys, j))

\* reversed(seq)
reversed(seq) == [j \in DOMAIN seq |-> seq[Len(seq) + 1 - j]]

\* the keys in the order the ChainMap holds them
unsorted_keys(maps) == ChainKeys(maps)

\* sorted(self.__dictionary.keys())
sorted_keys(maps) == sorted(ChainKeys(maps))

\* __iter__: for key in sorted(self.__dictionary.keys()): yield self.__dictionary[key]
Registry_iter(reg) ==
    LET keys == sorted_keys(reg.maps)
    IN  [j \in DOMAIN keys |-> ChainGet(reg.maps, keys[j])]

\* __reversed__: for key in reversed(sorted(self.__dictionary.keys()))
Registry_reversed(reg) ==
    LET keys == reversed(sorted_keys(reg.maps))
    IN  [j \in DOMAIN keys |-> ChainGet(reg.maps, keys[j])]

\* the Locator component while the Registry or a click is exercised
LocatorIdle ==
    /\ locator = [forced |-> FALSE,
                  terms |-> [seq |-> FALSE, items |-> <<Term(FALSE, 1)>>],
                  by |-> [seq |-> FALSE, kinds |-> <<NotABy>>],
                  list_ |-> FALSE, until |-> None, origin |-> "declared"]
    /\ call = [parent |-> None, args |-> 0, kwargs |-> 0, until |-> None]
    /\ pc = "off"
    /\ i = 0
    /\ until = None
    /\ warnings = 0
    /\ queried = <<>>
    /\ last = NoCall
    /\ result = NoneValue

InitRegistry ==
    /\ LocatorIdle
    /\ ClickIdle
    /\ AuxIdle
    /\ registry = NoRegistry
    /\ regPc = "new"
    /\ regOp = NoOp

\* one method call on the Registry: its outcome and what the call was
Applied(name, inp, key, val, out) ==
    /\ regPc = "ready"
    /\ Len(out.reg.maps) <= MaxLayers
    /\ registry' = out.reg
    /\ regOp' = [name |-> name, form |-> inp.form, entries |-> inp.entries,
                 key |-> key, val |-> val,
                 n |-> Cardinality(Defines(registry.maps, key)),
                 raised |-> out.raised]
    /\ UNCHANGED <<regPc, locatorVars, clickVars, auxVars>>

Construct ==
    /\ regPc = "new"
    /\ \E inp \in RegInputs \cup {NoneInput} :
          /\ registry' = Registry_init(inp)
          /\ regOp' = [NoOp EXCEPT !.name = "__init__", !.form = inp.form,
                                   !.entries = inp.entries]
    /\ regPc' = "ready"
    /\ UNCHANGED <<locatorVars, clickVars, auxVars>>

Register ==
    \E inp \in RegInputs : Applied("register", inp, 0, 0, register(registry, inp))

RegisterLast ==
    \E inp \in RegInputs :
       Applied("register_last", inp, 0, 0, register_last(registry, inp))

Delete ==
    \E key \in Names : Applied("delete", NoneInput, key, 0, delete(registry, key))

DeleteAll ==
    \E key \in Names :
       Applied("delete_all", NoneInput, key, 0, delete_all(registry, key))

Overwrite ==
    \E key \in Names, val \in RegLocators :
       Applied("overwrite", NoneInput, key, val, overwrite(registry, key, val))

Update ==
    \E key \in Names, val \in RegLocators :
       Applied("update", NoneInput, key, val, update(registry, key, val))

Clean == Applied("clean", NoneInput, 0, 0, clean(registry))

NextRegistry ==
    \/ Construct
    \/ Register
    \/ RegisterLast
    \/ Delete
    \/ DeleteAll
    \/ Overwrite
    \/ Update
    \/ Clean

SpecRegistry == InitRegistry /\ [][NextRegistry]_vars

---------------------------------------------------------------------------
(* Properties of the Registry                                              *)

\* the mapping argument of the latest call maps names to Locators only
MappingOfLocators(op) ==
    /\ op.entries # <<>>
    /\ \A j \in DOMAIN op.entries : WellFormed(op.entries[j])

\* the value the mapping argument gives a name (the last pair wins)
MappingValue(op, k) ==
    op.entries[Latest({j \in DOMAIN op.entries : op.entries[j].key = k})].val

MappingNames(op) == {op.entries[j].key : j \in DOMAIN op.entries}

\* the lookup result for a name: a Locator, or 0 for None
Get(reg, k) == Registry_getitem(reg, k).value

C11Step ==
    (/\ regOp'.name \in {"register", "register_last"}
     /\ registry.init
     /\ MappingOfLocators(regOp'))
    => /\ regOp'.raised = ""
       /\ \A k \in Names :
             Get(registry', k) =
                IF regOp'.name = "register"
                THEN IF k \in MappingNames(regOp') THEN MappingValue(regOp', k)
                     ELSE Get(registry, k)
                ELSE IF Defines(registry.maps, k) # {} THEN Get(registry, k)
                     ELSE IF k \in MappingNames(regOp')
                     THEN MappingValue(regOp', k)
                     ELSE 0

\* C11: after register_front or register_back with a mapping of names to
\* Locators, the lookup of a name returns the entry of the front-most layer
\* that defines it: a name of a register_front mapping resolves to the
\* mapping's Locator, shadowing what was there, and a name of a
\* register_back mapping resolves to the mapping's Locator only if no
\* earlier layer defines it
C11_FrontMostLayerWins == [][C11Step]_vars

\* C12: for every constructed Registry, contains(name) is true exactly when
\* some layer defines the name, and the lookup of an absent name returns
\* None; neither raises
C12_LookupIsTotal ==
    regPc = "ready" =>
        \A k \in Names :
            /\ Registry_contains(registry, k).raised = ""
            /\ Registry_contains(registry, k).value
                  <=> (\E j \in DOMAIN registry.maps : k \in DOMAIN registry.maps[j])
            /\ Registry_getitem(registry, k).raised = ""
            /\ (~Registry_contains(registry, k).value) => Get(registry, k) = 0

\* the well-formed entries of the mapping argument, as a layer
WellFormedLayer(op) ==
    LET ok == {j \in DOMAIN op.entries : WellFormed(op.entries[j])}
    IN  [k \in {op.entries[j].key : j \in ok} |->
            op.entries[Latest({j \in ok : op.entries[j].key = k})].val]

C13Step ==
    (/\ regOp'.name \in {"register", "register_last"}
     /\ registry.init
     /\ regOp'.form \in {"dict", "pairs"})
    => /\ regOp'.raised = ""
       /\ WellFormedLayer(regOp') # EmptyLayer =>
             registry'.maps =
                IF regOp'.name = "register"
                THEN <<WellFormedLayer(regOp')>> \o registry.maps
                ELSE Append(registry.maps, WellFormedLayer(regOp'))

\* C13: register_front and register_back accept a dict as well as an
\* iterable of pairs: the new layer holds exactly the well-formed entries,
\* malformed entries are skipped, and the call never raises
C13_RegisterAcceptsAnyMapping == [][C13Step]_vars

\* every entry of every layer other than the entries of name k is as before
OthersUnchanged(k) ==
    /\ Len(registry'.maps) = Len(registry.maps)
    /\ \A j \in DOMAIN registry.maps :
          /\ DOMAIN registry'.maps[j] \ {k} = DOMAIN registry.maps[j] \ {k}
          /\ \A x \in DOMAIN registry.maps[j] \ {k} :
                registry'.maps[j][x] = registry.maps[j][x]

\* layer j is the front-most layer of the registry that defines k
FrontMost(reg, j, k) ==
    /\ j \in DOMAIN reg.maps
    /\ k \in DOMAIN reg.maps[j]
    /\ \A x \in 1 .. j - 1 : k \notin DOMAIN reg.maps[x]

C14Step ==
    (regOp'.name \in {"delete", "delete_all"} /\ registry.init)
    => LET k == regOp'.key
       IN  /\ regOp'.raised = ""
           /\ OthersUnchanged(k)
           /\ \A j \in DOMAIN registry.maps :
                 IF regOp'.name = "delete"
                 THEN /\ k \in DOMAIN registry'.maps[j]
                            <=> (k \in DOMAIN registry.maps[j]
                                 /\ ~FrontMost(registry, j, k))
                      /\ k \in DOMAIN registry'.maps[j]
                            => registry'.maps[j][k] = registry.maps[j][k]
                 ELSE k \notin DOMAIN registry'.maps[j]
           /\ Get(registry, k) = 0 => registry' = registry

\* C14: delete_first removes a name from the front-most layer that defines
\* it and delete_all from every layer; both leave the entries of other
\* names and the number of layers as they were, and do nothing when the
\* name is absent
C14_DeleteFirstAndAll == [][C14Step]_vars

\* a delete has uncovered the entry of a deeper layer
C14_Witness ==
    /\ regOp.name = "delete"
    /\ regOp.raised = ""
    /\ regOp.n >= 2
    /\ Get(registry, regOp.key) # 0

C15Step ==
    (regOp'.name = "overwrite" /\ registry.init)
    => LET k == regOp'.key
       IN  /\ regOp'.raised = ""
           /\ OthersUnchanged(k)
           /\ \A j \in DOMAIN registry.maps :
                 /\ k \in DOMAIN registry'.maps[j] <=> k \in DOMAIN registry.maps[j]
                 /\ k \in DOMAIN registry.maps[j] =>
                       registry'.maps[j][k] =
                          IF FrontMost(registry, j, k) THEN regOp'.val
                          ELSE registry.maps[j][k]
           /\ Get(registry, k) = 0 => registry' = registry

\* C15: overwrite replaces the entry of the front-most layer that defines
\* the name and changes nothing else; it does nothing when no layer defines
\* the name
C15_OverwriteFrontMost == [][C15Step]_vars

\* an overwrite has replaced the front entry above a deeper, different one
C15_Witness ==
    /\ regOp.name = "overwrite"
    /\ regOp.n >= 2
    /\ Len(registry.maps) >= 2
    /\ regOp.key \in DOMAIN registry.maps[1]
    /\ regOp.key \in DOMAIN registry.maps[2]
    /\ registry.maps[1][regOp.key] = regOp.val
    /\ registry.maps[2][regOp.key] # regOp.val

C16Step ==
    (/\ regOp'.name = "update"
     /\ registry.init
     /\ regOp'.key \notin DOMAIN registry.maps[1])
    => /\ regOp'.raised = ""
       /\ registry'.maps =
             <<[k \in {regOp'.key} |-> regOp'.val]>> \o registry.maps

\* C16: update(name, L) when the front layer lacks the name: a new front
\* layer holding exactly name: L is inserted, so there is one layer more,
\* and the layers that were there, the previous front layer among them, are
\* as before
C16_UpdateInsertsFrontLayer == [][C16Step]_vars

C29Step ==
    (regOp'.name = "update" /\ registry.init /\ Len(registry.maps) >= 1)
    => /\ regOp'.raised = ""
       /\ Registry_getitem(registry', regOp'.key) =
             [value |-> regOp'.val, raised |-> ""]
       /\ LET n == Len(registry'.maps)
              m == Len(registry.maps)
          IN /\ n >= 1
             /\ n >= m
             /\ SubSeq(registry'.maps, 2, n) = SubSeq(registry.maps, m - n + 2, m)

\* C29: after update(name, L) on a registry with at least one layer,
\* get(name) returns L, and every layer of the resulting registry other than
\* its front-most layer is a layer that was there before, entry for entry:
\* nothing in them was added, changed or removed
C29_UpdateTouchesOnlyFrontLayer == [][C29Step]_vars

C29_Witness ==
    /\ regOp.name = "update"
    /\ regOp.raised = ""
    /\ registry.init
    /\ Len(registry.maps) = 2
    /\ regOp.key \in DOMAIN registry.maps[2]
    /\ registry.maps[2][regOp.key] # regOp.val
    /\ Get(registry, regOp.key) = regOp.val

NonEmpty(layer) == layer # EmptyLayer

C17Step ==
    (regOp'.name = "clean" /\ registry.init)
    => /\ regOp'.raised = ""
       /\ Len(registry'.maps) >= 1
       /\ \A j \in DOMAIN registry'.maps :
             NonEmpty(registry'.maps[j]) \/ Len(registry'.maps) = 1
       /\ SelectSeq(registry'.maps, NonEmpty) = SelectSeq(registry.maps, NonEmpty)

\* C17: clean ends without an error for every arrangement of empty and
\* non-empty layers; afterwards no empty layer is left unless it is the
\* only layer, there is at least one layer, and the non-empty layers keep
\* their order and contents
C17_CleanTerminates == [][C17Step]_vars

AllNames(reg) == UNION {DOMAIN reg.maps[j] : j \in DOMAIN reg.maps}

\* C18: iterating a Registry yields one Locator per distinct name, in
\* ascending order of the names (descending when reversed), each the
\* Locator of the front-most layer that defines the name
C18_IterationSortedFrontMost ==
    registry.init =>
        LET K == AllNames(registry)
            it == Registry_iter(registry)
            rv == Registry_reversed(registry)
        IN  /\ Len(it) = Cardinality(K)
            /\ Len(rv) = Cardinality(K)
            /\ \A k \in K :
                  \E j \in DOMAIN registry.maps :
                     /\ FrontMost(registry, j, k)
                     /\ it[Cardinality({x \in K : x <= k})] = registry.maps[j][k]
                     /\ rv[Cardinality({x \in K : x >= k})] = registry.maps[j][k]

\* two names, held by the ChainMap in descending order, one of them shadowed
\* with a different Locator
C18_Witness ==
    /\ registry.init
    /\ AllNames(registry) = Names
    /\ unsorted_keys(registry.maps) # sorted_keys(registry.maps)
    /\ \E k \in Names :
          /\ Cardinality(Defines(registry.maps, k)) >= 2
          /\ registry.maps[1][k] # registry.maps[2][k]

---------------------------------------------------------------------------
(* Truthiness and identity of the responses                                *)

\* MissType.__call__: calling Miss returns the class itself
MissType_call(cls) == cls

\* C19: a HitList is falsy exactly when it has no elements; Miss is falsy,
\* calling it returns Miss itself, and every Miss a lookup or an invocation
\* gives is that one object
C19_EmptyAndMissAreFalsy ==
    \A r \in {last.resp, result} :
        /\ r.type = "HitList" => (~Truthy(r) <=> r.elems = <<>>)
        /\ r.type = "Miss" =>
              /\ ~Truthy(r)
              /\ r = Miss
              /\ MissType_call(r) = Miss

\* an invocation has returned Miss after a lookup gave an empty HitList
C19_Witness ==
    /\ pc = "done"
    /\ result = Miss
    /\ last.resp = HitList(<<>>)

---------------------------------------------------------------------------
(* Hit.click (explore/response.py)                                         *)

MaxWait == 2

\* the wait argument: a number (negative, zero or positive) or something
\* that is no int or float
Waits ==
    {[numeric |-> TRUE, wait |-> w] : w \in -1 .. MaxWait}
    \cup {[numeric |-> FALSE, wait |-> 0]}

\* what WebElement.click() does: it returns or raises
NativeOutcomes == {"ok", "ElementClickInterceptedException",
                   "ElementNotInteractableException",
                   "StaleElementReferenceException"}

\* what execute_script of the scroll-and-click script does
ScriptOutcomes == {"ok", "JavascriptException"}

\* an except clause that catches every exception
CaughtAny(exc) == exc # "ok"

\* except (ElementClickInterceptedException, ElementNotInteractableException)
Caught(exc) ==
    exc \in {"ElementClickInterceptedException", "ElementNotInteractableException"}

\* isinstance(wait, (int, float)) and wait > 0
ShouldSleep(c) == c.numeric /\ c.wait > 0

InitClick ==
    /\ LocatorIdle
    /\ RegistryIdle
    /\ AuxIdle
    /\ \E e \in Elements, w \in Waits :
          click = [NoClick EXCEPT !.pc = "try", !.element = e,
                                  !.wait = w.wait, !.numeric = w.numeric]

\* try: self._element.click()
NativeClick ==
    /\ click.pc = "try"
    /\ \E out \in NativeOutcomes :
          click' = [click EXCEPT
                       !.native = @ + 1,
                       !.nativeOut = out,
                       !.pc = IF out = "ok" THEN "settle"
                              ELSE IF Caught(out) THEN "except" ELSE "done",
                       !.outcome = IF out = "ok" \/ Caught(out) THEN "" ELSE out]
    /\ UNCHANGED <<locatorVars, registryVars, auxVars>>

\* except ...: self._element._parent.execute_script('arguments[0].scrollIntoView();
\* arguments[0].click();', self._element)
ScrollScript ==
    /\ click.pc = "except"
    /\ \E out \in ScriptOutcomes :
          click' = [click EXCEPT
                       !.script = @ + 1,
                       !.scriptOut = out,
                       !.pc = IF out = "ok" THEN "settle" ELSE "done",
                       !.outcome = IF out = "ok" THEN "" ELSE out]
    /\ UNCHANGED <<locatorVars, registryVars, auxVars>>

\* if isinstance(wait, (int, float)) and wait > 0: sleep(wait); then return
Settle ==
    /\ click.pc = "settle"
    /\ click' = [click EXCEPT
                    !.slept = IF ShouldSleep(click) THEN @ + 1 ELSE @,
                    !.pc = "done",
                    !.outcome = "returned"]
    /\ UNCHANGED <<locatorVars, registryVars, auxVars>>

NextClick ==
    \/ NativeClick
    \/ ScrollScript
    \/ Settle

SpecClick == InitClick /\ [][NextClick]_vars

\* C20: Hit.click tries the native click exactly once; the scroll-and-click
\* script runs, exactly once, only when the native click raised
\* click-intercepted or not-interactable; the click succeeds when the native
\* click or the script succeeds, and a failure of the script propagates; the
\* settle delay happens only after a successful click and only when wait > 0
C20_ClickFallsBackOnce ==
    /\ click.native <= 1
    /\ click.script <= 1
    /\ click.script = 1 =>
          click.nativeOut \in {"ElementClickInterceptedException",
                               "ElementNotInteractableException"}
    /\ click.slept = 1 => click.outcome = "returned" /\ click.wait > 0
    /\ click.pc = "done" =>
          /\ click.native = 1
          /\ click.script = 1 <=>
                click.nativeOut \in {"ElementClickInterceptedException",
                                     "ElementNotInteractableException"}
          /\ click.outcome = "returned"
                <=> (click.nativeOut = "ok" \/ click.scriptOut = "ok")
          /\ click.scriptOut = "JavascriptException"
                => click.outcome = "JavascriptException"
          /\ click.slept = IF click.outcome = "returned" /\ click.numeric
                              /\ click.wait > 0
                           THEN 1 ELSE 0

\* an intercepted native click, a successful script and a settle delay
C20_Witness ==
    /\ click.pc = "done"
    /\ click.nativeOut = "ElementClickInterceptedException"
    /\ click.scriptOut = "ok"
    /\ click.outcome = "returned"
    /\ click.slept = 1

---------------------------------------------------------------------------
(* Wait (explore/wait.py): a predicate for an explicit-wait loop            *)

\* the bool values True and False
PyBool(b) == [type |-> "bool", elems |-> <<>>, msg |-> IF b THEN "True" ELSE "False"]

\* a bare WebElement
Element(e) == [type |-> "Element", elems |-> <<e>>, msg |-> ""]

\* what a Wait is constructed with: a Locator, or an already resolved
\* element or Hit
WaitSources ==
    {[source |-> "Locator", value |-> NoneValue]}
    \cup {[source |-> "Element", value |-> Element(e)] : e \in Elements}
    \cup {[source |-> "Hit", value |-> Hit(e)] : e \in Elements}

\* the conditions: lambda e: e.is_displayed(), lambda e: True,
\* lambda e: False, and lambda e: e (as selenium's expected conditions
\* return the element)
Conditions == {"is_displayed", "true", "false", "identity"}

\* what the Locator of a Wait returns when invoked on the driver
LocatorResponses ==
    {Miss} \cup {Hit(e) : e \in Elements} \cup {HitList(es) : es \in ElemSeqs}

AttributeError == [type |-> "AttributeError", elems |-> <<>>, msg |-> ""]

\* self.__condition(element)
condition(cond, v) ==
    CASE cond = "true" -> PyBool(TRUE)
      [] cond = "false" -> PyBool(FALSE)
      [] cond = "identity" -> v
      [] OTHER -> IF v.type \in {"Hit", "Element"}
                  THEN PyBool(is_displayed(v.elems[1]))
                  ELSE AttributeError

\* istrue(boolean): isinstance(boolean, bool) and boolean
istrue(v) == PyBool(v = PyBool(TRUE))

\* return istrue(self.__condition(element)); an exception of the condition
\* propagates
Wait_call(cond, v) ==
    IF condition(cond, v) = AttributeError THEN AttributeError
    ELSE istrue(condition(cond, v))

InitWait ==
    /\ LocatorIdle
    /\ RegistryIdle
    /\ ClickIdle
    /\ PollIdle
    /\ EarthIdle
    /\ HitsIdle
    /\ PullIdle
    /\ \E src \in WaitSources, cond \in Conditions :
          waitCall = [NoWaitCall EXCEPT !.pc = "new", !.source = src.source,
                                        !.value = src.value, !.cond = cond]

\* element = self.__locator(driver, ...) if isinstance(self.__locator, Locator)
\*           else self.__locator
WaitResolve ==
    /\ waitCall.pc = "new"
    /\ \E r \in LocatorResponses :
          waitCall' = [waitCall EXCEPT
                          !.pc = "resolved",
                          !.value = IF waitCall.source = "Locator" THEN r ELSE @]
    /\ UNCHANGED <<locatorVars, registryVars, clickVars, poll, earth, hitObjs, pulls>>

WaitEvaluate ==
    /\ waitCall.pc = "resolved"
    /\ waitCall' = [waitCall EXCEPT
                       !.pc = "done",
                       !.verdict = condition(waitCall.cond, waitCall.value).msg,
                       !.ret = Wait_call(waitCall.cond, waitCall.value)]
    /\ UNCHANGED <<locatorVars, registryVars, clickVars, poll, earth, hitObjs, pulls>>

NextWait ==
    \/ WaitResolve
    \/ WaitEvaluate

SpecWait == InitWait /\ [][NextWait]_vars

\* C21: calling a Wait with a driver returns the resolved value itself (the
\* response of its Locator, or the element it was constructed with) when
\* the condition is true on it, and the false sentinel otherwise
C21_WaitReturnsResolvedValue ==
    waitCall.pc = "done" =>
        /\ waitCall.verdict = "True" => waitCall.ret = waitCall.value
        /\ waitCall.verdict = "False" => waitCall.ret = PyBool(FALSE)

---------------------------------------------------------------------------
(* ForcedLocator.from_locator                                              *)

C22Step ==
    /\ locator' # locator =>
          /\ ~locator.forced
          /\ locator'.forced
          /\ locator'.terms = locator.terms
          /\ locator'.by = locator.by
          /\ locator'.list_ = locator.list_
          /\ locator'.until = locator.until
    /\ (/\ locator.forced
        /\ locator.origin = "from_locator"
        /\ ~Multi
        /\ pc = "single"
        /\ pc' = "done"
        /\ last' # last)
       => /\ result' = last'.resp
          /\ (/\ result'.type = "Hit"
              /\ ~is_displayed(result'.elems[1]))
             => StandardSingleResult(locator.list_, last'.resp) = Miss

\* C22: ForcedLocator.from_locator(L) has the terms, kinds, list flag and
\* default wait of L, and applies no visibility filter: invoked with a
\* single candidate it returns exactly what find / find_all returned, so a
\* found element that is not visible comes back as a Hit where L returns
\* Miss
C22_FromLocatorKeepsFieldsNoFilter == [][C22Step]_vars

\* a locator made by from_locator, with a default wait, returned a hidden
\* element as a Hit
C22_Witness ==
    /\ pc = "done"
    /\ locator.origin = "from_locator"
    /\ locator.until = DefaultWait
    /\ ~Multi
    /\ result.type = "Hit"
    /\ ~is_displayed(result.elems[1])
    /\ result = last.resp

---------------------------------------------------------------------------
(* Dispatch of find / find_all, and one term against a sequence of one     *)

\* C26: for each of the six kinds find wraps the element of the driver's
\* find-one operation in a Hit and find_all wraps the elements of the
\* find-all operation in a HitList, one Hit per element in driver order; a
\* kind outside the six raises instead of giving a response
C26_DispatchWrapsEveryKind ==
    /\ (/\ last # NoCall
        /\ last.by \in By
        /\ last.found
        /\ last.wait # "timeout")
       => last.resp = IF last.op = "find" THEN Hit(last.ret[1])
                      ELSE HitList(last.ret)
    /\ (/\ pc = "done"
        /\ \E k \in 1 .. Len(locator.by.kinds) : locator.by.kinds[k] \notin By)
       => IsRaise(result)

\* lines 121-130 and 242-251 when the sequence has one term: the response
\* when the test of the if passes, else the Miss of the loop's else
LoopOfOne(forced, list_, r) ==
    IF IsRaise(r) THEN r
    ELSE IF (IF forced THEN ForcedReturns(r) ELSE StandardReturns(list_, r))
    THEN r
    ELSE Miss

\* C28: a Locator declared with the single term T returns, for every driver
\* outcome, what the Locator declared with the sequence [T] returns: the
\* response of the lookup if it qualifies and Miss otherwise
C28_SingleTermEqualsSequenceOfOne ==
    (/\ pc = "done"
     /\ Len(Items) = 1
     /\ Len(queried) = 1)
    => result = LoopOfOne(locator.forced, locator.list_, last.resp)

\* the same with the single term left out: the sequence [T] does return so
SequenceOfOneReturnsLoopOfOne ==
    (/\ pc = "done"
     /\ Multi
     /\ Len(Items) = 1
     /\ Len(queried) = 1)
    => result = LoopOfOne(locator.forced, locator.list_, last.resp)

---------------------------------------------------------------------------
(* Hit objects (explore/response.py): equality and attribute access        *)

MaxHits == 2

\* what the wrapped element has under the name N that is looked up: a
\* native property N, an HTML attribute N, a DOM/JS property N, and a DOM/JS
\* property that is called None
Has == [native : BOOLEAN, html : BOOLEAN, js : BOOLEAN, jsNone : BOOLEAN]

\* Hit defines no __eq__: == is that of object, true of an object and
\* itself only; a and b are the positions of the two objects in objs
Hit_eq(objs, a, b) == a = b

\* self.get_attribute(attr): the value, or None ("None" is None)
Hit_getitem(has) == IF has.html THEN "html" ELSE "None"

\* execute_script('return arguments[0].%s;' % attr, self): the property
\* the script text names
execute_script(has, attr) ==
    CASE attr = "N" -> IF has.js THEN "js" ELSE "None"
      [] attr = "None" -> IF has.jsNone THEN "jsNone" ELSE "None"
      [] OTHER -> "None"

\* Hit.__getattr__: the walrus of the second stage rebinds attr to the
\* attribute's value, so when that is None the script is formatted with None
Hit_getattr(has) ==
    IF has.native THEN [ret |-> "native", stages |-> <<"native">>]
    ELSE LET attr == Hit_getitem(has)
         IN  IF attr # "None"
             THEN [ret |-> attr, stages |-> <<"native", "html">>]
             ELSE LET attr2 == execute_script(has, attr)
                  IN  [ret |-> IF attr2 # "None" THEN attr2 ELSE "AttributeError",
                       stages |-> <<"native", "html", "script " \o attr>>]

InitHit ==
    /\ LocatorIdle
    /\ RegistryIdle
    /\ ClickIdle
    /\ WaitIdle
    /\ PollIdle
    /\ EarthIdle
    /\ PullIdle
    /\ hitObjs = NoHits

\* Hit(element)
NewHit ==
    /\ Len(hitObjs.objs) < MaxHits
    /\ \E el \in Elements :
          hitObjs' = [NoHits EXCEPT !.objs = Append(hitObjs.objs, el),
                                    !.op = "Hit", !.a = Len(hitObjs.objs) + 1]
    /\ UNCHANGED <<locatorVars, registryVars, clickVars, waitCall, poll, earth, pulls>>

\* hit_a == hit_b
CompareHits ==
    /\ \E a, b \in DOMAIN hitObjs.objs :
          hitObjs' = [NoHits EXCEPT
                         !.objs = hitObjs.objs, !.op = "eq", !.a = a, !.b = b,
                         !.ret = IF Hit_eq(hitObjs.objs, a, b) THEN "True"
                                 ELSE "False"]
    /\ UNCHANGED <<locatorVars, registryVars, clickVars, waitCall, poll, earth, pulls>>

\* hit_a.N
GetAttr ==
    /\ \E a \in DOMAIN hitObjs.objs, has \in Has :
          hitObjs' = [NoHits EXCEPT
                         !.objs = hitObjs.objs, !.op = "getattr", !.a = a,
                         !.has = has,
                         !.stages = Hit_getattr(has).stages,
                         !.ret = Hit_getattr(has).ret]
    /\ UNCHANGED <<locatorVars, registryVars, clickVars, waitCall, poll, earth, pulls>>

NextHit ==
    \/ NewHit
    \/ CompareHits
    \/ GetAttr

SpecHit == InitHit /\ [][NextHit]_vars

\* C25: two Hit objects compare equal exactly when they wrap the same
\* driver element
C25_HitEqualityByElement ==
    hitObjs.op = "eq" =>
        (hitObjs.ret = "True"
            <=> hitObjs.objs[hitObjs.a] = hitObjs.objs[hitObjs.b])

\* C27: attribute access for a name N gives the native property N if the
\* element has it, else the HTML attribute N if present, else the DOM/JS
\* property N read by a page script; the invalid-attribute error is raised
\* only when all three yield nothing, and no stage is consulted after one
\* that yields a value
C27_ThreeStageAttributeAccess ==
    hitObjs.op = "getattr" =>
        /\ hitObjs.ret =
              IF hitObjs.has.native THEN "native"
              ELSE IF hitObjs.has.html THEN "html"
              ELSE IF hitObjs.has.js THEN "js"
              ELSE "AttributeError"
        /\ Len(hitObjs.stages) =
              IF hitObjs.has.native THEN 1 ELSE IF hitObjs.has.html THEN 2 ELSE 3

---------------------------------------------------------------------------
(* find / find_all with a wait predicate, over time (explore/query.py)     *)
(*                                                                         *)
(* present: the element is in the page now; satisfied: the predicate would *)
(* hold on it now; captured: the lookup's result holds the element;        *)
(* elapsed: poll intervals slept by the explicit-wait loop                 *)

\* timeout / poll_freq of wait_for, in poll intervals
MaxPolls == 4

\* the driver lookup, evaluated once as the argument of until(...):
\* find_element_by_* raises when the element is absent, find_elements_by_*
\* returns the list as it is now
lookup(p) ==
    IF p.op = "find" /\ ~p.present
    THEN [p EXCEPT !.lookups = @ + 1, !.pc = "done",
                   !.resp = response_of(Raised("NoSuchElementException", ""))]
    ELSE [p EXCEPT !.lookups = @ + 1, !.pc = "polling", !.captured = p.present]

\* one round of WebDriverWait(parent, timeout, poll_freq).until(predicate):
\* the predicate holds what the lookup returned; a truthy value is wrapped
\* and returned, else the loop sleeps, and raises TimeoutException when the
\* timeout has elapsed
until_round(p) ==
    IF p.captured /\ p.satisfied
    THEN [p EXCEPT !.pc = "done",
                   !.resp = IF p.op = "find" THEN Hit(p.element)
                            ELSE HitList(<<p.element>>)]
    ELSE IF p.elapsed >= MaxPolls
    THEN [p EXCEPT !.pc = "done",
                   !.resp = response_of(Raised("TimeoutException", ""))]
    ELSE [p EXCEPT !.elapsed = @ + 1]

InitPoll ==
    /\ LocatorIdle
    /\ RegistryIdle
    /\ ClickIdle
    /\ WaitIdle
    /\ EarthIdle
    /\ HitsIdle
    /\ PullIdle
    /\ \E op \in {"find", "find_all"}, el \in Elements, present \in BOOLEAN,
          satisfied \in BOOLEAN :
          /\ satisfied => present
          /\ poll = [NoPoll EXCEPT !.pc = "lookup", !.op = op, !.element = el,
                                   !.present = present, !.satisfied = satisfied]

\* the page: the element is added to the DOM
ElementAppears ==
    /\ poll.pc \in {"lookup", "polling"}
    /\ ~poll.present
    /\ poll' = [poll EXCEPT !.present = TRUE]
    /\ UNCHANGED <<locatorVars, registryVars, clickVars, waitCall, earth, hitObjs, pulls>>

\* the page: the element comes to satisfy the predicate
PredicateComesTrue ==
    /\ poll.pc \in {"lookup", "polling"}
    /\ poll.present
    /\ ~poll.satisfied
    /\ poll' = [poll EXCEPT !.satisfied = TRUE]
    /\ UNCHANGED <<locatorVars, registryVars, clickVars, waitCall, earth, hitObjs, pulls>>

\* parent.find_element(s)_by_*(query)
Lookup ==
    /\ poll.pc = "lookup"
    /\ poll' = lookup(poll)
    /\ UNCHANGED <<locatorVars, registryVars, clickVars, waitCall, earth, hitObjs, pulls>>

\* wait_for(parent).until(until(...)), one round
PollRound ==
    /\ poll.pc = "polling"
    /\ poll' = until_round(poll)
    /\ UNCHANGED <<locatorVars, registryVars, clickVars, waitCall, earth, hitObjs, pulls>>

NextPoll ==
    \/ ElementAppears
    \/ PredicateComesTrue
    \/ Lookup
    \/ PollRound

SpecPoll == InitPoll /\ [][NextPoll]_vars

\* C23: with a wait predicate the driver lookup is retried by the
\* explicit-wait loop: Miss is returned only once the timeout has elapsed
\* without the element being present and satisfying the predicate; an
\* element absent at first that comes to be present and to satisfy the
\* predicate before that is returned as a Hit / HitList
C23_LookupRetriedUntilTimeout ==
    (poll.pc = "done" /\ poll.resp = Miss)
    => /\ poll.elapsed >= MaxPolls
       /\ ~(poll.present /\ poll.satisfied)

---------------------------------------------------------------------------
(* EarthTime objects on one WebDriver (earthtime.py)                       *)
(*                                                                         *)
(* pages: the EarthTime objects constructed so far, each with what its     *)
(* __driver holds (the driver instance, a factory returning that driver,   *)
(* or None once released) and its __running flag; owner: the driver's      *)
(* instance attribute _EarthTimePage; classAttr: Driver._EarthTimePage is  *)
(* defined; total: EarthTime.__total_pages                                 *)

MaxPages == 3
MaxReleases == 2

\* values of the driver's instance attribute that are not a page
Unset == -1
NonePage == 0

\* driver._EarthTimePage: the instance attribute, else the class attribute
\* (None), else AttributeError
EarthTimePage_of(e) ==
    IF e.owner # Unset THEN [value |-> e.owner, raised |-> ""]
    ELSE IF e.classAttr THEN [value |-> NonePage, raised |-> ""]
    ELSE [value |-> NonePage, raised |-> "AttributeError"]

\* __verify_driver: TypeError for what is neither a driver nor a nullary
\* callable; UnearthtimeException for a driver instance whose _EarthTimePage
\* is not None; a factory is not looked into
verify_driver(e, arg) ==
    IF arg = "invalid" THEN "TypeError"
    ELSE IF /\ arg = "instance"
            /\ EarthTimePage_of(e).raised = ""
            /\ EarthTimePage_of(e).value # NonePage
    THEN "UnearthtimeException"
    ELSE ""

\* EarthTime(driver): verify, then the object starts not running
EarthTime_init(e, arg) ==
    IF verify_driver(e, arg) # ""
    THEN [e EXCEPT !.op = "init", !.raised = verify_driver(e, arg)]
    ELSE [e EXCEPT !.op = "init", !.raised = "", !.classAttr = TRUE,
                   !.pages = Append(@, [driver |-> arg, running |-> FALSE])]

\* load: nothing when running; a factory is called and replaced by its
\* driver, and only then is the driver's page checked; the driver's page is
\* set to self and the object runs (self.__total_pages += 1 binds an
\* attribute of the object and leaves the class's counter as it is)
load(e, p) ==
    IF e.pages[p].running THEN [e EXCEPT !.op = "load", !.raised = ""]
    ELSE IF e.pages[p].driver = "none"
    THEN [e EXCEPT !.op = "load", !.raised = "AttributeError"]
    ELSE IF e.pages[p].driver = "factory" /\ EarthTimePage_of(e).raised # ""
    THEN [e EXCEPT !.op = "load", !.raised = "AttributeError",
                   !.pages[p].driver = "instance"]
    ELSE IF e.pages[p].driver = "factory" /\ EarthTimePage_of(e).value # NonePage
    THEN [e EXCEPT !.op = "load", !.raised = "UnearthtimeException",
                   !.pages[p].driver = "instance"]
    ELSE [e EXCEPT !.op = "load", !.raised = "", !.owner = p,
                   !.pages[p] = [driver |-> "instance", running |-> TRUE]]

\* __reset_driver: the class's counter goes down by one, and the class
\* attribute is deleted when it reaches zero
reset_driver(e) ==
    [e EXCEPT !.total = @ - 1,
              !.classAttr = IF e.total - 1 = 0 THEN FALSE ELSE @,
              !.raised = IF e.total - 1 = 0 /\ ~e.classAttr
                         THEN "AttributeError" ELSE ""]

\* release_driver: nothing unless running; the driver's page becomes None,
\* the object stops running and gives its driver away
release_driver(e, p) ==
    IF ~e.pages[p].running THEN [e EXCEPT !.op = "release", !.raised = ""]
    ELSE reset_driver([e EXCEPT !.op = "release", !.owner = NonePage,
                                !.pages[p] = [driver |-> "none", running |-> FALSE]])

InitEarth ==
    /\ LocatorIdle
    /\ RegistryIdle
    /\ ClickIdle
    /\ WaitIdle
    /\ PollIdle
    /\ HitsIdle
    /\ PullIdle
    /\ earth = [NoEarth EXCEPT !.owner = Unset]

NewEarthTime ==
    /\ Len(earth.pages) < MaxPages
    /\ \E arg \in {"instance", "factory", "invalid"} : earth' = EarthTime_init(earth, arg)
    /\ UNCHANGED <<locatorVars, registryVars, clickVars, waitCall, poll, hitObjs, pulls>>

Load ==
    /\ \E p \in DOMAIN earth.pages : earth' = load(earth, p)
    /\ UNCHANGED <<locatorVars, registryVars, clickVars, waitCall, poll, hitObjs, pulls>>

ReleaseDriver ==
    /\ earth.total > -MaxReleases
    /\ \E p \in DOMAIN earth.pages : earth' = release_driver(earth, p)
    /\ UNCHANGED <<locatorVars, registryVars, clickVars, waitCall, poll, hitObjs, pulls>>

NextEarth ==
    \/ NewEarthTime
    \/ Load
    \/ ReleaseDriver

SpecEarth == InitEarth /\ [][NextEarth]_vars

Running(e) == {p \in DOMAIN e.pages : e.pages[p].running}

\* C24: a driver controls at most one running EarthTime page: two EarthTime
\* objects are never both running on the same driver
C24_OneRunningPagePerDriver == Cardinality(Running(earth)) <= 1

---------------------------------------------------------------------------
(* EarthTime.pull (earthtime.py)                                           *)
(*                                                                         *)
(* a name is a sequence of characters; a key is a name string ("str"), a   *)
(* tuple holding the name alone ("tuple1"), the name and arguments         *)
(* ("tupleArgs"), the name, arguments and a wait predicate in the last     *)
(* place ("tupleUntil"), a tuple whose first item is not a string          *)
(* ("tupleNonStr"), or a value that is neither ("other")                   *)

MaxNameLen == 2
MaxHistory == 2

PullNames == UNION {[1 .. n -> {"a", "A", "_"}] : n \in 0 .. MaxNameLen}

\* the names the registry of the page defines
RegistryNames == {<<"A">>, <<"A", "a">>}

PullKeys ==
    [shape : {"str", "tuple1", "tupleArgs", "tupleUntil", "tupleNonStr", "other"},
     name : PullNames]

capitalize(c) == IF c = "a" THEN "A" ELSE c

\* resolvequery: runs of separators split the value into words, the first
\* character of each word is capitalized, the words are joined
RECURSIVE resolve(_, _)
resolve(value, first) ==
    IF value = <<>> THEN <<>>
    ELSE IF Head(value) = "_" THEN resolve(Tail(value), TRUE)
    ELSE <<IF first THEN capitalize(Head(value)) ELSE Head(value)>>
         \o resolve(Tail(value), FALSE)

resolvequery(value) == resolve(value, TRUE)

\* key if key in registry else (rkey if rkey in registry else '')
query_of(name) ==
    IF name \in RegistryNames THEN name
    ELSE IF resolvequery(name) \in RegistryNames THEN resolvequery(name)
    ELSE <<>>

\* pull, the overload for anything but a str or a tuple: the key is
\* recorded and Miss returned
pull_base(p, key, forced) ==
    [p EXCEPT !.history = Append(@, [key |-> key, mark |-> IF forced THEN "pair" ELSE ""]),
              !.key = key, !.forced = forced, !.ret = Miss]

\* pull, the overload for a str; resp is what calling the locator returns.
\* The locator is taken from the registry before query is tested: get of ''
\* is None, and ForcedLocator.from_locator(None) reads None.terms
pull_str(p, key, name, forced, resp) ==
    [p EXCEPT !.history = Append(@, [key |-> [shape |-> "str", name |-> name], mark |-> IF forced THEN "pair" ELSE ""]),
              !.key = key, !.forced = forced,
              !.ret = IF forced /\ query_of(name) = <<>> THEN AttributeError
                      ELSE IF query_of(name) # <<>> THEN resp
                      ELSE Miss]

\* pull, the overload for a tuple: a first item that is not a str, and a
\* name the registry lacks, fall off the end of the method
pull_tuple(p, key, forced, resp) ==
    IF key.shape = "tupleNonStr"
    THEN [p EXCEPT !.key = key, !.forced = forced, !.ret = NoneValue]
    ELSE IF key.shape = "tuple1"
    THEN pull_str(p, key, key.name, forced, resp)
    ELSE [p EXCEPT !.history = Append(@, [key |-> key, mark |-> IF forced THEN "appended" ELSE ""]),
                   !.key = key, !.forced = forced,
                   !.ret = IF query_of(key.name) # <<>> THEN resp ELSE NoneValue]

InitPull ==
    /\ LocatorIdle
    /\ RegistryIdle
    /\ ClickIdle
    /\ WaitIdle
    /\ PollIdle
    /\ EarthIdle
    /\ HitsIdle
    /\ pulls = NoPulls

PullStr ==
    /\ Len(pulls.history) < MaxHistory
    /\ \E name \in PullNames, forced \in BOOLEAN, resp \in LocatorResponses :
          pulls' = pull_str(pulls, [shape |-> "str", name |-> name], name, forced, resp)
    /\ UNCHANGED <<locatorVars, registryVars, clickVars, waitCall, poll, earth, hitObjs>>

PullTuple ==
    /\ Len(pulls.history) < MaxHistory
    /\ \E key \in PullKeys, forced \in BOOLEAN, resp \in LocatorResponses :
          /\ key.shape \in {"tuple1", "tupleArgs", "tupleUntil", "tupleNonStr"}
          /\ pulls' = pull_tuple(pulls, key, forced, resp)
    /\ UNCHANGED <<locatorVars, registryVars, clickVars, waitCall, poll, earth, hitObjs>>

PullOther ==
    /\ Len(pulls.history) < MaxHistory
    /\ \E forced \in BOOLEAN :
          pulls' = pull_base(pulls, [shape |-> "other", name |-> <<>>], forced)
    /\ UNCHANGED <<locatorVars, registryVars, clickVars, waitCall, poll, earth, hitObjs>>

NextPull ==
    \/ PullStr
    \/ PullTuple
    \/ PullOther

SpecPull == InitPull /\ [][NextPull]_vars

NameKeys == {"str", "tuple1", "tupleArgs", "tupleUntil"}

\* C30: pull returns Miss, and raises nothing, for every key whose locator
\* name is not in the registry, neither as given nor after normalisation:
\* for a name string and for a tuple of a name and arguments, forced or not
C30_PullUnknownNameIsMiss ==
    (pulls.key.shape \in NameKeys /\ query_of(pulls.key.name) = <<>>)
    => pulls.ret = Miss

====
